---- MODULE Spec2Model ----
(***************************************************************************)
(* Pronote -> ICS server (src/main.py): the single-slot TTL cache of       *)
(* PronoteBackend.get_lessons, the request handler ICSRequestHandler.do_GET*)
(* and the pure conversions _to_local, _uid_for and lessons_to_ics.        *)
(*                                                                         *)
(* Text is modelled as a sequence of one-token strings, so concatenation   *)
(* and splitting at the "|" delimiter are what they are in Python.         *)
(* Instants are integers (seconds for time.time(), days for dates, hours   *)
(* for lesson timestamps).                                                 *)
(***************************************************************************)
EXTENDS Integers, Sequences, FiniteSets, TLC

----------------------------------------------------------------------------
(* Bounds of the model *)

\* time.time() when the server starts serving (any positive instant)
StartTime == 1000
\* seconds added to the clock by one Tick
ClockStep == 30
\* number of clock ticks explored
MaxTicks == 3
\* local date (day number) when the server starts
StartDay == 100
\* number of midnights explored
MaxMidnights == 1
\* number of upstream fetch attempts explored
MaxFetches == 3
\* number of clients that send a request while others are in flight
NClients == 2

----------------------------------------------------------------------------
(* Text *)

Digits == <<"0", "1", "2", "3", "4", "5", "6", "7", "8", "9">>

IsDigit(c) == \E i \in 1..10 : Digits[i] = c

DigitVal(c) == (CHOOSE i \in 1..10 : Digits[i] = c) - 1

RECURSIVE LStrip(_)
LStrip(s) == IF s # <<>> /\ Head(s) = " " THEN LStrip(Tail(s)) ELSE s

RECURSIVE RStrip(_)
RStrip(s) ==
    IF s # <<>> /\ s[Len(s)] = " " THEN RStrip(SubSeq(s, 1, Len(s) - 1)) ELSE s

\* str.strip()
Strip(s) == RStrip(LStrip(s))

RECURSIVE DigitsValue(_)
DigitsValue(s) ==
    IF s = <<>> THEN 0
    ELSE 10 * DigitsValue(SubSeq(s, 1, Len(s) - 1)) + DigitVal(s[Len(s)])

\* int(s): surrounding blanks, an optional sign, then one or more digits;
\* anything else raises ValueError (ok = FALSE).
ParseInt(s) ==
    LET t == Strip(s)
        signed == t # <<>> /\ Head(t) \in {"+", "-"}
        body == IF signed THEN Tail(t) ELSE t
        ok == body # <<>> /\ \A i \in 1..Len(body) : IsDigit(body[i])
        mag == IF ok THEN DigitsValue(body) ELSE 0
    IN  [ok |-> ok, val |-> IF signed /\ Head(t) = "-" THEN 0 - mag ELSE mag]

RECURSIVE NatToStr(_)
NatToStr(n) ==
    IF n < 10 THEN <<Digits[n + 1]>>
    ELSE NatToStr(n \div 10) \o <<Digits[(n % 10) + 1]>>

\* str(n) of an integer
IntToStr(n) == IF n < 0 THEN <<"-">> \o NatToStr(0 - n) ELSE NatToStr(n)

----------------------------------------------------------------------------
(* Interactive configuration *)

\* what prompt_int returns when no typed line is accepted: the prompt loops
\* for ever and the program never gets past it
NoValue == 0 - 1

\* prompt_int(label, default, min_v, max_v) reading the typed lines in
\* order: an empty line stands for the default, a line is accepted when it
\* parses as an integer within min_v..max_v, otherwise the prompt repeats.
RECURSIVE prompt_int(_, _, _, _)
prompt_int(lines, default, min_v, max_v) ==
    IF lines = <<>> THEN NoValue
    ELSE LET s == IF Strip(Head(lines)) = <<>> THEN IntToStr(default)
                  ELSE Strip(Head(lines))
             p == ParseInt(s)
         IN  IF p.ok /\ min_v <= p.val /\ p.val <= max_v THEN p.val
             ELSE prompt_int(Tail(lines), default, min_v, max_v)

\* choose_optional(label, default)
choose_optional(line, default) ==
    IF Strip(line) # <<>> THEN Strip(line) ELSE default

\* lines typed at the three prompts in the explored runs
TypedWeeks == {<<<<>>>>, <<<<"0">>, <<"8">>>>, <<<<"2", "7">>, <<"a">>, <<>>>>}
TypedTTL == {<<<<"6", "0">>>>, <<<<"5", "9">>, <<"9", "0">>>>, <<<<"9", "0", "1">>, <<" ", "9", "0">>>>}
TypedENT == {<<>>, <<" ">>, <<"E">>}

----------------------------------------------------------------------------
(* Timestamps and the local time zone *)

\* UTC offsets (hours) of the configured zone, default "Europe/Paris"
TzStdOffset == 1
TzDstOffset == 2
\* UTC hour at which the zone switches from standard to summer time
DstSwitchUtc == 12

\* A timestamp: None, naive (no tzinfo) or aware (wall clock + UTC offset).
NoneDt == [kind |-> "none", wall |-> 0, off |-> 0]
NaiveDt(w) == [kind |-> "naive", wall |-> w, off |-> 0]
AwareDt(w, o) == [kind |-> "aware", wall |-> w, off |-> o]

\* tzinfo.utcoffset() of LOCAL_TZ for an instant given in UTC
LocalOffsetAtUtc(utc) == IF utc < DstSwitchUtc THEN TzStdOffset ELSE TzDstOffset

\* tzinfo.utcoffset() of LOCAL_TZ for a wall-clock time labelled with it
\* (fold = 0: a wall-clock time skipped by the switch keeps the offset that
\* was in force before it)
LocalOffsetAtWall(w) ==
    IF w < DstSwitchUtc + TzDstOffset THEN TzStdOffset ELSE TzDstOffset

\* mutant of to_local: a timestamp that carries a zone is relabelled, not
\* converted
to_local_relabel(dt) ==
    IF dt.kind = "none" THEN NoneDt
    ELSE AwareDt(dt.wall, LocalOffsetAtWall(dt.wall))

\* PronoteBackend._to_local
to_local(dt) ==
    IF dt.kind = "none" THEN NoneDt
    ELSE IF dt.kind = "naive" THEN AwareDt(dt.wall, LocalOffsetAtWall(dt.wall))
    ELSE LET utc == dt.wall - dt.off
         IN  AwareDt(utc + LocalOffsetAtUtc(utc), LocalOffsetAtUtc(utc))

TwoDigits(n) == <<Digits[(n \div 10) + 1], Digits[(n % 10) + 1]>>

\* datetime.isoformat() of an aware timestamp: wall clock, then the offset
isoformat(dt) == <<"T">> \o TwoDigits(dt.wall) \o <<"+">> \o TwoDigits(dt.off)

----------------------------------------------------------------------------
(* Lesson records and the calendar document *)

\* a field that is None or missing on the record
NoneStr == <<"None">>

\* Python truthiness of a text field
Truthy(s) == s # NoneStr /\ s # <<>>

\* Python's  a or b
Or(a, b) == IF Truthy(a) THEN a ELSE b

\* mutant of uid_base: the fields are concatenated without the delimiter
uid_base_undelimited(start_dt, title, room, teacher) ==
    isoformat(start_dt) \o title \o room \o teacher

\* PronoteBackend._uid_for: the string that is hashed
uid_base(start_dt, title, room, teacher) ==
    isoformat(start_dt) \o <<"|">> \o title \o <<"|">> \o room \o <<"|">> \o teacher

\* PronoteBackend._uid_for, SHA-1 taken as injective: the digest is written
\* as its preimage
uid_for(start_dt, title, room, teacher) ==
    <<"sha1(">> \o uid_base(start_dt, title, room, teacher) \o <<")", "@pronote-ics">>

\* "\n".join(lines)
RECURSIVE JoinLines(_)
JoinLines(lines) ==
    IF lines = <<>> THEN <<>>
    ELSE IF Len(lines) = 1 THEN lines[1]
    ELSE lines[1] \o <<"\n">> \o JoinLines(Tail(lines))

\* mutant of lesson_title: the alias is preferred to the primary field
lesson_title_alias_first(lesson) ==
    Or(Or(lesson.subject_name, lesson.subject), <<"Cours">>)

lesson_title(lesson) == Or(Or(lesson.subject, lesson.subject_name), <<"Cours">>)
lesson_room(lesson) == Or(Or(lesson.classroom, lesson.classroom_name), <<>>)
lesson_teacher(lesson) == Or(Or(lesson.teacher, lesson.teacher_name), <<>>)
lesson_group(lesson) == Or(lesson.group_name, <<>>)

\* mutant of skipped: only the start is tested
skipped_start_only(lesson) == to_local(lesson.start).kind = "none"

\* the test  if not (start and end): continue
skipped(lesson) ==
    to_local(lesson.start).kind = "none" \/ to_local(lesson.end).kind = "none"

event_summary(lesson) ==
    IF lesson_group(lesson) = <<>> THEN lesson_title(lesson)
    ELSE lesson_title(lesson) \o <<" (">> \o lesson_group(lesson) \o <<")">>

\* desc_lines ("Enseignant.e" stands for the source's "Enseignant·e")
desc_lines(lesson) ==
    (IF lesson_teacher(lesson) # <<>>
        THEN <<(<<"Enseignant.e : ">> \o lesson_teacher(lesson))>> ELSE <<>>)
    \o (IF lesson_room(lesson) # <<>>
        THEN <<(<<"Salle : ">> \o lesson_room(lesson))>> ELSE <<>>)
    \o (IF lesson.canceled THEN <<(<<"(!) Seance annulee">>)>> ELSE <<>>)

event_description(lesson) ==
    IF desc_lines(lesson) # <<>> THEN JoinLines(desc_lines(lesson)) ELSE <<"Seance">>

\* mutant of event_location: the property is added whether or not there is a room
event_location_always(lesson) == <<lesson_room(lesson)>>

\* location: <<>> when the property is not added, <<room>> when it is
event_location(lesson) ==
    IF lesson_room(lesson) # <<>> THEN <<lesson_room(lesson)>> ELSE <<>>

\* mutant of event_uid: the canceled flag takes part in the identity
event_uid_with_status(lesson) ==
    uid_for(to_local(lesson.start), lesson_title(lesson), lesson_room(lesson),
            lesson_teacher(lesson) \o (IF lesson.canceled THEN <<"!">> ELSE <<>>))

\* lessons_to_ics, line 161
event_uid(lesson) ==
    uid_for(to_local(lesson.start), lesson_title(lesson), lesson_room(lesson),
            lesson_teacher(lesson))

event_status(lesson) == IF lesson.canceled THEN "CANCELLED" ELSE "CONFIRMED"

\* the Event built by one iteration of the loop of lessons_to_ics
event_of(lesson) ==
    [summary |-> event_summary(lesson),
     description |-> event_description(lesson),
     location |-> event_location(lesson),
     uid |-> event_uid(lesson),
     dtstart |-> to_local(lesson.start),
     dtend |-> to_local(lesson.end),
     status |-> event_status(lesson)]

\* the loop of lessons_to_ics: the events added to the calendar, in order
RECURSIVE events_of(_)
events_of(lessons) ==
    IF lessons = <<>> THEN <<>>
    ELSE IF skipped(Head(lessons)) THEN events_of(Tail(lessons))
    ELSE <<event_of(Head(lessons))>> \o events_of(Tail(lessons))

\* PronoteBackend.lessons_to_ics: the calendar document that is serialised
lessons_to_ics(lessons) ==
    [prodid |-> "-//Pronote ICS//Assia//FR", version |-> "2.0",
     events |-> events_of(lessons)]

\* a record as pronotepy returns it
Lesson(start, end, subject, classroom, teacher, group, canceled) ==
    [start |-> start, end |-> end, subject |-> subject, subject_name |-> NoneStr,
     classroom |-> classroom, classroom_name |-> NoneStr,
     teacher |-> teacher, teacher_name |-> NoneStr,
     group_name |-> group, canceled |-> canceled]

----------------------------------------------------------------------------
(* The server: configuration, cache, request handling *)

VARIABLES
    DEFAULT_WEEKS_FORWARD,  \* module global set by prompt_int at start-up
    cache_ttl,              \* backend.cache_ttl (CACHE_TTL_SECONDS)
    ent_name,               \* backend.ent_name
    cache_until,            \* backend._cache_until
    cache_range,            \* backend._cache_range
    cache_lessons,          \* backend._cache_lessons
    clock,                  \* time.time()
    today,                  \* datetime.now(tz=LOCAL_TZ).date(), a day number
    pc,                     \* where the serving thread is
    req,                    \* locals of the calendar request being / last handled
    ret,                    \* what its get_lessons call returned: <<>> or <<lessons>>
    resp,                   \* the response written for the last request
    fetches,                \* number of calls of _fetch_lessons so far
    stored,                 \* history: the last call that fetched and stored
    other_since,            \* history: a call for another window came after it
    failure,                \* history: "never", or a fetch failed "before" / "since" it
    backlog,                \* connections waiting to be accepted, oldest first
    conns,                  \* per client: its request and where its handling is
    arg,                    \* input of the function applied on its own
    result,                 \* what it returned: <<>> before the call
    before                  \* what the previous call returned

vars == <<DEFAULT_WEEKS_FORWARD, cache_ttl, ent_name, cache_until, cache_range,
          cache_lessons, clock, today, pc, req, ret, resp, fetches, stored,
          other_since, failure, backlog, conns, arg, result, before>>

config == <<DEFAULT_WEEKS_FORWARD, cache_ttl, ent_name>>
cache == <<cache_until, cache_range, cache_lessons>>
history == <<stored, other_since, failure>>
net == <<backlog, conns>>
fn == <<arg, result, before>>
server == <<cache, clock, today, pc, req, ret, resp, fetches, history>>

\* None in _cache_range
NoDate == 0 - 1

\* the value of the weeks query parameter: <<>> when absent, else <<text>>
NoParam == <<>>
WeeksParams == {NoParam, <<<<"1">>>>, <<<<"2", "7">>>>, <<<<"a", "b", "c">>>>}

Paths == {"/health", "/calendar.ics", "/calendar", "/"}
CalendarPaths == {"/calendar.ics", "/calendar"}

\* lessons of the timetables the upstream returns in the explored runs
MathLesson(canceled) ==
    Lesson(AwareDt(8, 1), AwareDt(9, 1), <<"M">>, <<"B">>, <<"D">>, NoneStr, canceled)
UntimedLesson == Lesson(NoneDt, NoneDt, <<"M">>, NoneStr, NoneStr, NoneStr, FALSE)
FetchResults ==
    {<<>>, <<MathLesson(FALSE)>>, <<UntimedLesson, MathLesson(TRUE)>>}

\* what makes the upstream call raise
FetchErrors == {"login", "timetable"}

\* do_GET, lines 205 and 214: where the path of the request leads
route(path) ==
    IF path = "/health" THEN "health"
    ELSE IF path \notin CalendarPaths THEN "bad"
    ELSE "calendar"

\* mutant of resolve_weeks: the lower limit is tested with <=
resolve_weeks_above_one(param, default) ==
    LET text == IF param = NoParam \/ param[1] = <<>> THEN IntToStr(default)
                ELSE param[1]
        p == ParseInt(text)
    IN  IF ~p.ok THEN default
        ELSE IF p.val <= 1 \/ p.val > 26 THEN default
        ELSE p.val

\* do_GET, lines 218-224: the resolved number of weeks
resolve_weeks(param, default) ==
    LET text == IF param = NoParam \/ param[1] = <<>> THEN IntToStr(default)
                ELSE param[1]
        p == ParseInt(text)
    IN  IF ~p.ok THEN default
        ELSE IF p.val < 1 \/ p.val > 26 THEN default
        ELSE p.val

\* mutant of request_window: the weeks are added as days
request_window_days(day, weeks) == <<day - 7, day + weeks>>

\* do_GET, lines 228-230: the window asked of get_lessons
request_window(day, weeks) == <<day - 7, day + 7 * weeks>>

\* mutant of cache_hit: the expiry comparison is inverted
cache_hit_inverted(now, window) ==
    /\ now > cache_until
    /\ cache_range[1] = window[1]
    /\ cache_range[2] = window[2]

\* mutant of cache_hit: an entry is still valid at the instant it expires
cache_hit_inclusive(now, window) ==
    /\ now <= cache_until
    /\ cache_range[1] = window[1]
    /\ cache_range[2] = window[2]

\* mutant of cache_hit: the end date of the window is not compared
cache_hit_start_only(now, window) ==
    /\ now < cache_until
    /\ cache_range[1] = window[1]

\* mutant of cache_hit: the expiry is not tested
cache_hit_ignores_expiry(now, window) ==
    /\ cache_range[1] = window[1]
    /\ cache_range[2] = window[2]

\* get_lessons, lines 114-116: the cache test
cache_hit(now, window) ==
    /\ now < cache_until
    /\ cache_range[1] = window[1]
    /\ cache_range[2] = window[2]

\* mutant of new_expiry: the clock is read again once the fetch has returned
new_expiry_after_fetch(now) == clock + cache_ttl

\* get_lessons, line 122
new_expiry(now) == now + cache_ttl

NoReq == [weeks |-> 0, day |-> 0, window |-> <<NoDate, NoDate>>, now |-> 0]
NoResp == [status |-> 0, ctype |-> "", text |-> <<>>, cal |-> <<>>]

\* _send_ics
IcsResp(lessons) ==
    [status |-> 200, ctype |-> "text/calendar; charset=utf-8", text |-> <<>>,
     cal |-> <<lessons_to_ics(lessons)>>]

\* _send_500 with the message built at line 236
ErrorResp(e) ==
    [status |-> 500, ctype |-> "text/plain; charset=utf-8",
     text |-> <<"Erreur generation ICS: ", e>>, cal |-> <<>>]

\* _send_400
BadPathResp ==
    [status |-> 400, ctype |-> "text/plain; charset=utf-8",
     text |-> <<"Utilise /calendar.ics (option: ?weeks=8)">>, cal |-> <<>>]

HealthResp ==
    [status |-> 200, ctype |-> "application/json", text |-> <<"{\"ok\": true}">>,
     cal |-> <<>>]

\* the clients, and a client that has not sent its request (stored_at: the
\* time at which its call stored an entry, 0 if it did not)
Clients == 1..NClients
NoConn ==
    [st |-> "none", path |-> "", param |-> NoParam, window |-> <<NoDate, NoDate>>,
     now |-> 0, ret |-> <<>>, status |-> 0, stored_at |-> 0]

\* the prompts at start-up, lines 66-69, and PronoteBackend.__init__, line 82
InitConfig(typedWeeks, typedTTL, typedENT) ==
    /\ \E lines \in typedWeeks :
          /\ prompt_int(lines, 8, 1, 26) # NoValue
          /\ DEFAULT_WEEKS_FORWARD = prompt_int(lines, 8, 1, 26)
    /\ \E lines \in typedTTL :
          /\ prompt_int(lines, 120, 60, 900) # NoValue
          /\ cache_ttl = prompt_int(lines, 120, 60, 900)
    /\ \E line \in typedENT : ent_name = Strip(choose_optional(line, <<>>))

\* PronoteBackend.__init__, lines 86-88, and the server before its first request
InitServer ==
    /\ cache_until = 0
    /\ cache_range = <<NoDate, NoDate>>
    /\ cache_lessons = <<>>
    /\ clock = StartTime
    /\ today = StartDay
    /\ pc = "idle"
    /\ req = NoReq
    /\ ret = <<>>
    /\ resp = NoResp
    /\ fetches = 0
    /\ stored = <<>>
    /\ other_since = FALSE
    /\ failure = "never"
    /\ backlog = <<>>
    /\ conns = [c \in Clients |-> NoConn]

Init ==
    /\ InitConfig(TypedWeeks, TypedTTL, TypedENT)
    /\ InitServer
    /\ arg = <<>>
    /\ result = <<>>
    /\ before = <<>>

\* do_GET for /health
Health(path) ==
    /\ pc = "idle"
    /\ route(path) = "health"
    /\ resp' = HealthResp
    /\ UNCHANGED <<config, cache, clock, today, pc, req, ret, fetches, history, net, fn>>

\* do_GET for a path that is neither /health nor the calendar
BadPath(path) ==
    /\ pc = "idle"
    /\ route(path) = "bad"
    /\ resp' = BadPathResp
    /\ UNCHANGED <<config, cache, clock, today, pc, req, ret, fetches, history, net, fn>>

\* mutant of Calendar: _login does not test ent_name and contacts the upstream
Calendar_ignores_ent(path, param) ==
    LET weeks == resolve_weeks(param, DEFAULT_WEEKS_FORWARD)
        window == request_window(today, weeks)
        now == clock
        other == stored # <<>> /\ stored[1].window # window
    IN  /\ pc = "idle"
        /\ route(path) = "calendar"
        /\ req' = [weeks |-> weeks, day |-> today, window |-> window, now |-> now]
        /\ other_since' = (other_since \/ other)
        /\ IF cache_hit(now, window)
           THEN /\ ret' = <<cache_lessons>>
                /\ resp' = IcsResp(cache_lessons)
                /\ UNCHANGED <<pc, fetches, failure>>
           ELSE /\ fetches < MaxFetches
                /\ fetches' = fetches + 1
                /\ ret' = <<>>
                /\ resp' = NoResp
                /\ pc' = "fetching"
                /\ UNCHANGED failure
        /\ UNCHANGED <<config, cache, clock, today, stored, net, fn>>

\* do_GET for the calendar, up to the point where get_lessons either returns
\* from the cache, fails at once in _login, or waits for the upstream
Calendar(path, param) ==
    LET weeks == resolve_weeks(param, DEFAULT_WEEKS_FORWARD)
        window == request_window(today, weeks)
        now == clock
        other == stored # <<>> /\ stored[1].window # window
    IN  /\ pc = "idle"
        /\ route(path) = "calendar"
        /\ req' = [weeks |-> weeks, day |-> today, window |-> window, now |-> now]
        /\ other_since' = (other_since \/ other)
        /\ IF cache_hit(now, window)
           THEN /\ ret' = <<cache_lessons>>
                /\ resp' = IcsResp(cache_lessons)
                /\ UNCHANGED <<pc, fetches, failure>>
           ELSE /\ fetches < MaxFetches
                /\ fetches' = fetches + 1
                /\ ret' = <<>>
                /\ IF ent_name # <<>>
                   THEN /\ resp' = ErrorResp("ent")
                        /\ failure' = "since"
                        /\ pc' = "idle"
                   ELSE /\ resp' = NoResp
                        /\ pc' = "fetching"
                        /\ UNCHANGED failure
        /\ UNCHANGED <<config, cache, clock, today, stored, net, fn>>

\* the upstream call returns: get_lessons stores and returns, do_GET answers
FetchReturn(lessons) ==
    /\ pc = "fetching"
    /\ cache_lessons' = lessons
    /\ cache_range' = req.window
    /\ cache_until' = new_expiry(req.now)
    /\ ret' = <<lessons>>
    /\ resp' = IcsResp(lessons)
    /\ pc' = "idle"
    /\ stored' = <<[window |-> req.window, now |-> req.now, lessons |-> lessons]>>
    /\ other_since' = FALSE
    /\ failure' = (IF failure = "never" THEN "never" ELSE "before")
    /\ UNCHANGED <<config, clock, today, req, fetches, net, fn>>

\* mutant of FetchRaise: a failed fetch invalidates the stored entry
FetchRaise_invalidates(e) ==
    /\ pc = "fetching"
    /\ cache_until' = 0
    /\ cache_lessons' = <<>>
    /\ ret' = <<>>
    /\ resp' = ErrorResp(e)
    /\ pc' = "idle"
    /\ failure' = "since"
    /\ UNCHANGED <<config, cache_range, clock, today, req, fetches, stored, other_since, net, fn>>

\* mutant of FetchRaise: the exception is not caught and ends serve_forever
FetchRaise_crashes(e) ==
    /\ pc = "fetching"
    /\ ret' = <<>>
    /\ resp' = NoResp
    /\ pc' = "crashed"
    /\ failure' = "since"
    /\ UNCHANGED <<config, cache, clock, today, req, fetches, stored, other_since, net, fn>>

\* the upstream call raises (login refused, network, backend error)
FetchRaise(e) ==
    /\ pc = "fetching"
    /\ ret' = <<>>
    /\ resp' = ErrorResp(e)
    /\ pc' = "idle"
    /\ failure' = "since"
    /\ UNCHANGED <<config, cache, clock, today, req, fetches, stored, other_since, net, fn>>

\* time passes
Tick ==
    /\ clock < StartTime + MaxTicks * ClockStep
    /\ clock' = clock + ClockStep
    /\ UNCHANGED <<config, cache, today, pc, req, ret, resp, fetches, history, net, fn>>

\* the local date changes
Midnight ==
    /\ today < StartDay + MaxMidnights
    /\ today' = today + 1
    /\ UNCHANGED <<config, cache, clock, pc, req, ret, resp, fetches, history, net, fn>>

Next ==
    \/ \E path \in Paths : Health(path)
    \/ \E path \in Paths : BadPath(path)
    \/ \E path \in Paths, param \in WeeksParams : Calendar(path, param)
    \/ \E lessons \in FetchResults : FetchReturn(lessons)
    \/ \E e \in FetchErrors : FetchRaise(e)
    \/ Tick
    \/ Midnight

Spec == Init /\ [][Next]_vars

----------------------------------------------------------------------------
(* Several requests in flight: the clients connect at any time, the listening *)
(* socket queues them, and serve_forever handles them; get_lessons is taken   *)
(* line by line.                                                              *)

\* the requests the clients send, and the timetables the upstream returns
ConcRequests ==
    {[path |-> "/health", param |-> NoParam], [path |-> "/", param |-> NoParam],
     [path |-> "/calendar.ics", param |-> NoParam],
     [path |-> "/calendar.ics", param |-> <<<<"1">>>>]}
ConcResults == {<<>>, <<MathLesson(FALSE)>>}

\* positions between the cache test of get_lessons and the end of line 122
InSequence == {"fetching", "storing_range", "storing_until"}

InitConc ==
    /\ InitConfig({<<<<>>>>}, TypedTTL, TypedENT)
    /\ InitServer
    /\ arg = <<>>
    /\ result = <<>>
    /\ before = <<>>

\* a client sends a request: the connection waits in the listen queue
Connect(c, request) ==
    /\ conns[c].st = "none"
    /\ conns' = [conns EXCEPT ![c].st = "queued", ![c].path = request.path,
                               ![c].param = request.param]
    /\ backlog' = Append(backlog, c)
    /\ UNCHANGED <<config, server, fn>>

\* mutant of server_free: every request is handled in a thread of its own
\* (ThreadingHTTPServer)
server_free_threaded == TRUE

\* HTTPServer: serve_forever accepts the next connection only after the
\* handler of the previous one has returned
server_free == \A c \in Clients : conns[c].st \notin InSequence

\* do_GET for the oldest waiting connection, up to the point where it is
\* answered or get_lessons waits for the upstream
Serve(c) ==
    LET r == conns[c]
        weeks == resolve_weeks(r.param, DEFAULT_WEEKS_FORWARD)
        window == request_window(today, weeks)
        now == clock
        answered(status, lessons) ==
            [r EXCEPT !.st = "answered", !.status = status, !.ret = lessons]
    IN  /\ backlog # <<>>
        /\ Head(backlog) = c
        /\ server_free
        /\ backlog' = Tail(backlog)
        /\ IF route(r.path) = "health"
           THEN conns' = [conns EXCEPT ![c] = answered(200, <<>>)] /\ UNCHANGED fetches
           ELSE IF route(r.path) = "bad"
           THEN conns' = [conns EXCEPT ![c] = answered(400, <<>>)] /\ UNCHANGED fetches
           ELSE IF cache_hit(now, window)
           THEN /\ conns' = [conns EXCEPT ![c] =
                      [answered(200, <<cache_lessons>>) EXCEPT !.window = window, !.now = now]]
                /\ UNCHANGED fetches
           ELSE /\ fetches' = fetches + 1
                /\ IF ent_name # <<>>
                   THEN conns' = [conns EXCEPT ![c] =
                            [answered(500, <<>>) EXCEPT !.window = window, !.now = now]]
                   ELSE conns' = [conns EXCEPT ![c] =
                            [r EXCEPT !.st = "fetching", !.window = window, !.now = now]]
        /\ UNCHANGED <<config, cache, clock, today, pc, req, ret, resp, history, fn>>

\* get_lessons, lines 119-120: the upstream call returns and the list is stored
FetchedStoreLessons(c, lessons) ==
    /\ conns[c].st = "fetching"
    /\ cache_lessons' = lessons
    /\ conns' = [conns EXCEPT ![c].st = "storing_range", ![c].ret = <<lessons>>]
    /\ UNCHANGED <<config, cache_until, cache_range, clock, today, pc, req, ret, resp,
                   fetches, history, backlog, fn>>

\* mutant of StoreRange: the window of the new entry is not stored
StoreRange_skipped(c) ==
    /\ conns[c].st = "storing_range"
    /\ conns' = [conns EXCEPT ![c].st = "storing_until"]
    /\ UNCHANGED <<config, cache, clock, today, pc, req, ret, resp,
                   fetches, history, backlog, fn>>

\* get_lessons, line 121
StoreRange(c) ==
    /\ conns[c].st = "storing_range"
    /\ cache_range' = conns[c].window
    /\ conns' = [conns EXCEPT ![c].st = "storing_until"]
    /\ UNCHANGED <<config, cache_until, cache_lessons, clock, today, pc, req, ret, resp,
                   fetches, history, backlog, fn>>

\* get_lessons, lines 122-123, and do_GET, lines 233-234: the expiry is
\* stored, the list returned and the feed sent
StoreUntil(c) ==
    /\ conns[c].st = "storing_until"
    /\ cache_until' = new_expiry(conns[c].now)
    /\ conns' = [conns EXCEPT ![c].st = "answered", ![c].status = 200,
                               ![c].stored_at = clock]
    /\ stored' = <<[window |-> conns[c].window, now |-> conns[c].now,
                    lessons |-> conns[c].ret[1]]>>
    /\ UNCHANGED <<config, cache_range, cache_lessons, clock, today, pc, req, ret, resp,
                   fetches, other_since, failure, backlog, fn>>

\* mutant of FetchFailed: the upstream call is made again after a failure
FetchFailed_retries(c, e) ==
    /\ conns[c].st = "fetching"
    /\ fetches' = fetches + 1
    /\ UNCHANGED <<config, cache, clock, today, pc, req, ret, resp, history, net, fn>>

\* the upstream call raises: get_lessons propagates, do_GET answers 500
FetchFailed(c, e) ==
    /\ conns[c].st = "fetching"
    /\ conns' = [conns EXCEPT ![c].st = "answered", ![c].status = 500]
    /\ UNCHANGED <<config, server, backlog, fn>>

NextConc ==
    \/ \E c \in Clients, request \in ConcRequests : Connect(c, request)
    \/ \E c \in Clients : Serve(c)
    \/ \E c \in Clients, lessons \in ConcResults : FetchedStoreLessons(c, lessons)
    \/ \E c \in Clients : StoreRange(c)
    \/ \E c \in Clients : StoreUntil(c)
    \/ \E c \in Clients, e \in FetchErrors : FetchFailed(c, e)
    \/ Tick

SpecConc == InitConc /\ [][NextConc]_vars

----------------------------------------------------------------------------
(* The pure parts applied on their own: each specification draws the input *)
(* in its initial state and its actions apply the function.                *)

\* bounds of the inputs
MaxParamLen == 2
MaxUidText == 2
MaxLessons == 3

\* all texts over chars of length at most n
Texts(chars, n) == UNION {[1..k -> chars] : k \in 0..n}

RECURSIVE SumLen(_)
SumLen(texts) == IF texts = <<>> THEN 0 ELSE Len(Head(texts)) + SumLen(Tail(texts))

(* -- the weeks parameter: do_GET, lines 204-224 -- *)

WeekChars == {"0", "1", "2", "6", "7", "-", "+", " ", "a"}
AllWeeksParams == {NoParam} \cup {<<t>> : t \in Texts(WeekChars, MaxParamLen)}
TypedWeeksWide ==
    {<<<<>>>>, <<<<"1">>>>, <<<<"2", "6">>>>, <<<<"2", "7">>, <<"0">>, <<"1", "2">>>>}

InitWeeks ==
    /\ InitConfig(TypedWeeksWide, TypedTTL, {<<>>})
    /\ InitServer
    /\ arg \in [path : Paths, param : AllWeeksParams]
    /\ result = <<>>
    /\ before = <<>>

\* the request is routed and its weeks parameter resolved
ResolveRequest ==
    /\ result = <<>>
    /\ result' = <<[route |-> route(arg.path),
                    weeks |-> resolve_weeks(arg.param, DEFAULT_WEEKS_FORWARD)]>>
    /\ UNCHANGED <<config, server, net, arg, before>>

NextWeeks == ResolveRequest

SpecWeeks == InitWeeks /\ [][NextWeeks]_vars

(* -- the event identifier: _uid_for -- *)

UidChars == {"a", "|"}
UidStarts == {AwareDt(8, 1), AwareDt(9, 1), AwareDt(8, 2)}
UidTuples ==
    {t \in [start : UidStarts, title : Texts(UidChars, MaxUidText),
            room : Texts(UidChars, MaxUidText), teacher : Texts(UidChars, MaxUidText)] :
        SumLen(<<t.title, t.room, t.teacher>>) <= MaxUidText}

InitUid ==
    /\ InitConfig({<<<<>>>>}, {<<<<>>>>}, {<<>>})
    /\ InitServer
    /\ arg \in UidTuples \X UidTuples
    /\ result = <<>>
    /\ before = <<>>

Uid(t) == uid_for(t.start, t.title, t.room, t.teacher)

\* _uid_for is called for the two tuples
ComputeUids ==
    /\ result = <<>>
    /\ result' = <<Uid(arg[1]), Uid(arg[2])>>
    /\ UNCHANGED <<config, server, net, arg, before>>

NextUid == ComputeUids

SpecUid == InitUid /\ [][NextUid]_vars

(* -- the feed: lessons_to_ics -- *)

\* records with every combination of present and missing fields
FullLessons ==
    [start : {NoneDt, NaiveDt(8), AwareDt(8, 1), AwareDt(7, 0)},
     end : {NoneDt, AwareDt(9, 1)},
     subject : {NoneStr, <<>>, <<"M">>},
     subject_name : {NoneStr, <<"N">>},
     classroom : {NoneStr, <<"B">>},
     classroom_name : {NoneStr, <<"C">>},
     teacher : {NoneStr, <<"D">>},
     teacher_name : {<<>>, <<"E">>},
     group_name : {NoneStr, <<"G">>},
     canceled : BOOLEAN]

\* records not yet canceled that differ in their times and their subject
PlainLessons ==
    {Lesson(st, en, su, <<"B">>, <<"D">>, NoneStr, FALSE) :
        st \in {NoneDt, AwareDt(8, 1)}, en \in {NoneDt, AwareDt(9, 1)},
        su \in {<<"M">>, <<"P">>}}

LessonLists ==
    {<<l>> : l \in FullLessons} \cup UNION {[1..k -> PlainLessons] : k \in 0..MaxLessons}

InitIcs ==
    /\ InitConfig({<<<<>>>>}, {<<<<>>>>}, {<<>>})
    /\ InitServer
    /\ arg \in LessonLists
    /\ result = <<>>
    /\ before = <<>>

\* lessons_to_ics is called on the fetched list
BuildFeed ==
    /\ result = <<>>
    /\ result' = <<lessons_to_ics(arg)>>
    /\ UNCHANGED <<config, server, net, arg, before>>

\* the school cancels lesson i; the list is fetched again and the feed rebuilt
CancelAndRebuild(i) ==
    /\ result # <<>>
    /\ before = <<>>
    /\ ~arg[i].canceled
    /\ arg' = [arg EXCEPT ![i].canceled = TRUE]
    /\ before' = result
    /\ result' = <<lessons_to_ics(arg')>>
    /\ UNCHANGED <<config, server, net>>

NextIcs == BuildFeed \/ \E i \in DOMAIN arg : CancelAndRebuild(i)

SpecIcs == InitIcs /\ [][NextIcs]_vars

(* -- the time normalisation: _to_local, and the identifier built on it -- *)

\* wall-clock hours around the switch to summer time, and the UTC offsets of
\* the zones the timestamps of the upstream may carry
Walls == (DstSwitchUtc - 3)..(DstSwitchUtc + 4)
Offsets == {0 - 5, 0, TzStdOffset, TzDstOffset}
Stamps ==
    {NoneDt} \cup {NaiveDt(w) : w \in Walls}
             \cup {AwareDt(w, o) : w \in Walls, o \in Offsets}

\* a lesson that starts and ends at dt
LessonAt(dt) == Lesson(dt, dt, <<"M">>, <<"B">>, <<"D">>, NoneStr, FALSE)

InitTime ==
    /\ InitConfig({<<<<>>>>}, {<<<<>>>>}, {<<>>})
    /\ InitServer
    /\ arg \in [a : Stamps, b : Stamps]
    /\ result = <<>>
    /\ before = <<>>

\* _to_local is applied to the two timestamps, and the feed is built for a
\* lesson at each of them
Normalize ==
    /\ result = <<>>
    /\ result' = <<[a |-> to_local(arg.a), b |-> to_local(arg.b),
                    feed_a |-> lessons_to_ics(<<LessonAt(arg.a)>>),
                    feed_b |-> lessons_to_ics(<<LessonAt(arg.b)>>)]>>
    /\ UNCHANGED <<config, server, net, arg, before>>

NextTime == Normalize

SpecTime == InitTime /\ [][NextTime]_vars

----------------------------------------------------------------------------
(* Claims about the cache and the request handler, checked under Spec *)

\* a step in which get_lessons is called for the calendar
CalendarStep ==
    /\ pc = "idle" /\ clock' = clock /\ today' = today
    /\ \E path \in CalendarPaths, param \in WeeksParams : Calendar(path, param)

\* a step in which the upstream fetch of a request fails
FailStep ==
    /\ failure' = "since"
    /\ \/ pc = "fetching" /\ pc' # "fetching"
       \/ pc = "idle" /\ fetches' = fetches + 1 /\ pc' # "fetching"

\* a step in which the upstream fetch of a request succeeds
SuccessStep == pc = "fetching" /\ pc' # "fetching" /\ failure' # "since"

\* C1: a call for the window W of the last storing call, made before that
\* call's time + TTL with no call for another window in between, returns the
\* lessons that call stored and leaves the fetch counter unchanged.
C1_CacheHit ==
    [][(/\ stored # <<>>
        /\ ~other_since
        /\ stored[1].now <= clock
        /\ clock < stored[1].now + cache_ttl
        /\ req'.window = stored[1].window
        /\ CalendarStep)
       => (/\ ret' = <<stored[1].lessons>>
           /\ fetches' = fetches
           /\ pc' = "idle")]_vars

\* a later request for the stored window was served from the cache
C1_Witness ==
    /\ stored # <<>>
    /\ ~other_since
    /\ pc = "idle"
    /\ req.window = stored[1].window
    /\ req.now > stored[1].now
    /\ ret = <<stored[1].lessons>>
    /\ stored[1].lessons # <<>>
    /\ fetches = 1

\* C2: a failed fetch leaves _cache_until, _cache_range and _cache_lessons as
\* they were, is answered as an error and returns no lessons; an entry stored
\* before the failure and still valid is served to later requests for its window.
C2_FailureLeavesCache ==
    [][/\ FailStep => (cache' = cache /\ ret' = <<>> /\ resp'.status = 500)
       /\ (/\ failure = "since"
           /\ stored # <<>>
           /\ clock < stored[1].now + cache_ttl
           /\ req'.window = stored[1].window
           /\ CalendarStep)
          => (/\ ret' = <<stored[1].lessons>>
              /\ fetches' = fetches
              /\ cache' = cache)]_vars

\* after a failed fetch for another window, the older entry was served as a hit
C2_Witness ==
    /\ failure = "since"
    /\ stored # <<>>
    /\ other_since
    /\ pc = "idle"
    /\ req.window = stored[1].window
    /\ req.now > stored[1].now
    /\ ret = <<stored[1].lessons>>
    /\ cache_lessons = stored[1].lessons

\* C3: a call for the window of the last storing call (made at t1), at a time
\* t2 >= t1 + TTL, makes exactly one upstream fetch: the counter goes up by
\* one when the call starts and not again while it waits; when the fetch
\* succeeds the stored expiry is t2 + TTL.
C3_MissOnExpiry ==
    [][/\ (/\ stored # <<>>
           /\ clock >= stored[1].now + cache_ttl
           /\ req'.window = stored[1].window
           /\ CalendarStep)
          => (fetches' = fetches + 1 /\ ret' = <<>> /\ pc' = "fetching")
       /\ pc = "fetching" => fetches' = fetches
       /\ SuccessStep => (cache_until' = req.now + cache_ttl /\ cache_range' = req.window)]_vars

\* the entry expired at this very instant (t2 = t1 + TTL) and the call for
\* its window is waiting for its single upstream fetch
C3_Witness ==
    /\ pc = "fetching"
    /\ stored # <<>>
    /\ req.window = stored[1].window
    /\ req.now = stored[1].now + cache_ttl
    /\ fetches = 2
    /\ clock > req.now

\* C4: a call for a window other than the stored one (start or end differs)
\* makes an upstream fetch whether or not the stored entry has expired; the
\* cache keeps the last window only, so going back to a window that was
\* replaced fetches again: three fetches for three alternating requests.
C4_MissOnWindowChange ==
    [][/\ (/\ stored # <<>>
           /\ req'.window # stored[1].window
           /\ CalendarStep)
          => (fetches' = fetches + 1 /\ ret' = <<>>)
       /\ SuccessStep => (cache_range' = req.window /\ stored'[1].window = req.window)]_vars

\* the third of three fetches, all called within one TTL period, is under way
\* while the entry of the second, for a window with the same start date, is
\* still valid
C4_Witness ==
    /\ pc = "fetching"
    /\ fetches = 3
    /\ failure = "never"
    /\ stored # <<>>
    /\ stored[1].window # req.window
    /\ stored[1].window[1] = req.window[1]
    /\ req.now < StartTime + cache_ttl
    /\ req.now < cache_until

\* C9: a calendar request whose fetch fails is answered 500 with a message,
\* the cache and the configuration are unchanged and the server is back to
\* accepting requests; a request whose fetch succeeds after a failure is
\* answered with the feed of the fetched lessons, which are stored.
C9_FailureScoped ==
    [][/\ FailStep => (/\ resp'.status = 500
                       /\ resp'.text # <<>>
                       /\ resp'.cal = <<>>
                       /\ pc' = "idle"
                       /\ cache' = cache
                       /\ config' = config)
       /\ (SuccessStep /\ failure = "since")
          => (/\ resp'.status = 200
              /\ ret' # <<>>
              /\ resp'.cal = <<lessons_to_ics(ret'[1])>>
              /\ cache_lessons' = ret'[1]
              /\ cache_range' = req.window
              /\ pc' = "idle")]_vars

\* a fetch failed, and a later request was answered with a feed and stored
C9_Witness ==
    /\ failure = "before"
    /\ pc = "idle"
    /\ resp.status = 200
    /\ resp.cal # <<>>
    /\ ret = <<cache_lessons>>
    /\ cache_range = req.window
    /\ req.now = stored[1].now

\* C10: the window passed to get_lessons is (today - 7, today + 7 * w) for the
\* resolved size w: start < end, the span is 7 * w + 7 days, and a request
\* with the same w on the same date as the previous one asks the same window.
C10_WindowComputation ==
    [][CalendarStep
       => (/\ req'.day = today
           /\ req'.window = <<today - 7, today + 7 * req'.weeks>>
           /\ req'.window[1] < req'.window[2]
           /\ req'.window[2] - req'.window[1] = 7 * req'.weeks + 7
           /\ (req.weeks = req'.weeks /\ req.day = req'.day)
              => req'.window = req.window)]_vars

\* a request for one week was handled after the date changed
C10_Witness ==
    /\ req # NoReq
    /\ req.day = StartDay + 1
    /\ req.weeks = 1
    /\ req.window = <<StartDay - 6, StartDay + 8>>

\* C18: the clock never goes back; a list returned by a get_lessons call that
\* read the clock at t comes from a fetch whose call read the clock at t0 with
\* 0 <= t - t0 < TTL (t0 = t when the call fetched itself); the stored expiry
\* is at most the time of the latest call plus the TTL; a hit leaves the
\* expiry as it is, only a successful fetch writes it.
C18_FreshnessBound ==
    [][/\ clock' >= clock
       /\ (CalendarStep /\ ret' # <<>>)
          => (/\ stored # <<>>
              /\ ret' = <<stored[1].lessons>>
              /\ stored[1].now <= req'.now
              /\ req'.now - stored[1].now < cache_ttl
              /\ cache_until' = cache_until
              /\ stored' = stored)
       /\ SuccessStep
          => (/\ ret' = <<stored'[1].lessons>>
              /\ stored'[1].now = req.now
              /\ cache_until' = req.now + cache_ttl)
       /\ (req' # NoReq) => cache_until' <= req'.now + cache_ttl
       /\ (cache_until' # cache_until) => SuccessStep]_vars

\* a hit at the last explored instant before the entry expires: the list
\* served is one clock step younger than the TTL
C18_Witness ==
    /\ pc = "idle"
    /\ stored # <<>>
    /\ req.window = stored[1].window
    /\ req.now > stored[1].now
    /\ req.now < cache_until
    /\ req.now + ClockStep >= cache_until
    /\ clock = req.now
    /\ ret = <<stored[1].lessons>>
    /\ cache_until = stored[1].now + cache_ttl
    /\ fetches = 1

\* C19: when the configured ENT name is non-empty after trimming, no request
\* ever reaches the upstream and the cache stays as __init__ left it; every
\* calendar request misses, makes one login attempt that fails, and is
\* answered 500; no feed is ever served.
C19_EntBlocksFetch ==
    /\ [](/\ ent_name = Strip(ent_name)
          /\ ent_name # <<>> =>
                (/\ pc = "idle"
                 /\ cache_until = 0
                 /\ cache_range = <<NoDate, NoDate>>
                 /\ cache_lessons = <<>>
                 /\ stored = <<>>
                 /\ ret = <<>>
                 /\ resp.cal = <<>>
                 /\ resp.ctype # "text/calendar; charset=utf-8"))
    /\ [][(ent_name # <<>> /\ CalendarStep)
           => (/\ fetches' = fetches + 1
               /\ resp'.status = 500
               /\ resp'.text # <<>>
               /\ failure' = "since"
               /\ pc' = "idle")]_vars

\* with an ENT configured, three calendar requests made three login attempts
\* and the last was answered 500; the cache is still empty
C19_Witness ==
    /\ ent_name = <<"E">>
    /\ fetches = 3
    /\ req # NoReq
    /\ resp.status = 500
    /\ cache_until = 0
    /\ cache_lessons = <<>>
    /\ clock > StartTime

----------------------------------------------------------------------------
(* Claims about the pure parts *)

\* the records of a list that have both times, in order
RECURSIVE Timed(_)
Timed(lessons) ==
    IF lessons = <<>> THEN <<>>
    ELSE IF Head(lessons).start.kind # "none" /\ Head(lessons).end.kind # "none"
         THEN <<Head(lessons)>> \o Timed(Tail(lessons))
         ELSE Timed(Tail(lessons))

\* the identifiers of the events of a document, in order
Uids(doc) == [i \in 1..Len(doc.events) |-> doc.events[i].uid]

\* two records that agree on everything but the canceled flag
SameButCanceled(a, b) == [a EXCEPT !.canceled = FALSE] = [b EXCEPT !.canceled = FALSE]

\* C5: the status of each event is CANCELLED exactly when its record is
\* canceled, CONFIRMED otherwise; records that differ only in the canceled
\* flag get the same identifier; the feed rebuilt after a cancellation has the
\* identifiers of the feed before it.
C5_CancellationRoundTrip ==
    result # <<>> =>
        LET evs == result[1].events
            recs == Timed(arg)
        IN  /\ Len(evs) = Len(recs)
            /\ \A i \in 1..Len(evs) :
                  /\ recs[i].canceled => evs[i].status = "CANCELLED"
                  /\ ~recs[i].canceled => evs[i].status = "CONFIRMED"
            /\ \A i, j \in 1..Len(evs) :
                  SameButCanceled(recs[i], recs[j]) => evs[i].uid = evs[j].uid
            /\ before # <<>> => Uids(result[1]) = Uids(before[1])

\* a timed lesson was cancelled: the rebuilt feed has the same identifier and
\* a CANCELLED event where the feed before had a CONFIRMED one
C5_Witness ==
    /\ result # <<>> /\ before # <<>>
    /\ Len(result[1].events) = 2
    /\ \E i \in 1..2 :
          /\ before[1].events[i].status = "CONFIRMED"
          /\ result[1].events[i].status = "CANCELLED"
          /\ result[1].events[i].uid = before[1].events[i].uid

\* C6: the build always yields a document; its events are, in input order,
\* exactly the records whose start and end are both non-null, each with both
\* of its times, whatever stands before or after a skipped record.
C6_SkipOnMissingTime ==
    /\ result = <<>> => ENABLED BuildFeed
    /\ result # <<>> =>
          LET evs == result[1].events
              recs == Timed(arg)
          IN  /\ Len(evs) = Len(recs)
              /\ \A i \in 1..Len(evs) :
                    /\ evs[i].dtstart.kind = "aware"
                    /\ evs[i].dtend.kind = "aware"
                    /\ evs[i].dtstart = to_local(recs[i].start)
                    /\ evs[i].dtend = to_local(recs[i].end)
                    /\ evs[i].summary = event_summary(recs[i])

\* a record without end stands between two timed records, and the feed holds
\* the events of these two
C6_Witness ==
    /\ result # <<>>
    /\ Len(arg) = 3
    /\ arg[1].start.kind # "none" /\ arg[1].end.kind # "none"
    /\ arg[2].start.kind # "none" /\ arg[2].end.kind = "none"
    /\ arg[3].start.kind # "none" /\ arg[3].end.kind # "none"
    /\ arg[1].subject # arg[3].subject
    /\ Len(result[1].events) = 2
    /\ result[1].events[1].summary = arg[1].subject
    /\ result[1].events[2].summary = arg[3].subject

\* the text holds the delimiter
HasBar(t) == \E i \in 1..Len(t) : t[i] = "|"

\* C7 as stated: two tuples that differ in a field get different identifiers
C7_AnyTuplesDiffer ==
    (result # <<>> /\ arg[1] # arg[2]) => result[1] # result[2]

\* C7 amended: two tuples that differ in a field, and whose titles and rooms
\* hold no "|", get different identifiers (the hash taken as injective).
C7_DelimiterFreeTuplesDiffer ==
    (/\ result # <<>>
     /\ arg[1] # arg[2]
     /\ \A k \in 1..2 : ~HasBar(arg[k].title) /\ ~HasBar(arg[k].room))
    => result[1] # result[2]

\* two tuples without "|" in title and room, with the same letters split
\* differently over title and room, got different identifiers
C7_Witness ==
    /\ result # <<>>
    /\ arg[1].start = arg[2].start
    /\ arg[1].title = <<"a">> /\ arg[1].room = <<>> /\ arg[1].teacher = <<"|">>
    /\ arg[2].title = <<>> /\ arg[2].room = <<"a">> /\ arg[2].teacher = <<"|">>
    /\ result[1] # result[2]

\* the parameter is present and is the text of an integer within 1..26
ValidWeeks(param) ==
    /\ param # NoParam
    /\ ParseInt(param[1]).ok
    /\ ParseInt(param[1]).val \in 1..26

\* C8: a calendar request is never rejected for its weeks parameter; the
\* resolved size is the parameter when it parses as an integer within 1..26
\* (1 and 26 included) and the configured default otherwise (0, 27, negative,
\* not a number, absent); it is always within 1..26.
C8_WindowClamp ==
    (result # <<>> /\ arg.path \in CalendarPaths) =>
        /\ result[1].route = "calendar"
        /\ result[1].weeks \in 1..26
        /\ ValidWeeks(arg.param) => result[1].weeks = ParseInt(arg.param[1]).val
        /\ ~ValidWeeks(arg.param) => result[1].weeks = DEFAULT_WEEKS_FORWARD
        /\ arg.param = <<<<"1">>>> => result[1].weeks = 1
        /\ arg.param = <<<<"2", "6">>>> => result[1].weeks = 26
        /\ arg.param \in {NoParam, <<<<"0">>>>, <<<<"2", "7">>>>, <<<<"-", "1">>>>,
                          <<<<"a", "a">>>>, <<<<"a">>>>}
           => result[1].weeks = DEFAULT_WEEKS_FORWARD

\* weeks=27 was resolved to a configured default other than 8
C8_Witness ==
    /\ result # <<>>
    /\ arg.path = "/calendar.ics"
    /\ arg.param = <<<<"2", "7">>>>
    /\ DEFAULT_WEEKS_FORWARD = 12
    /\ result[1] = [route |-> "calendar", weeks |-> 12]

----------------------------------------------------------------------------
(* Claims about several requests in flight, checked under SpecConc *)

\* the requests that are between the cache test and the end of line 122
Sequencing == {c \in Clients : conns[c].st \in InSequence}

\* the requests that were sent and are not answered yet
InFlight == {c \in Clients : conns[c].st \notin {"none", "answered"}}

\* C11: at any time at most one of the requests in flight is between the
\* validity check of get_lessons and the end of the replacement of the cache
\* state; a request starts the sequence only when no other request is in it,
\* so two requests that miss for the same window run it one after the other.
C11_MutualExclusion ==
    /\ Cardinality(Sequencing) <= 1
    /\ \A c \in Sequencing : c \notin {backlog[i] : i \in DOMAIN backlog}
    /\ (Sequencing # {} /\ backlog # <<>>) => ~ENABLED Serve(Head(backlog))

\* two calendar requests for the same window are in flight while the cache is
\* empty: the first is in the middle of the replacement, the second waits
C11_Witness ==
    /\ InFlight = {1, 2}
    /\ conns[1].st = "storing_range"
    /\ conns[2].st = "queued"
    /\ route(conns[2].path) = "calendar"
    /\ conns[2].param = conns[1].param
    /\ stored = <<>>
    /\ cache_lessons # <<>>

\* the cache is as __init__ left it, or holds what the last storing call
\* fetched for its window
Consistent ==
    IF stored = <<>>
    THEN cache_until = 0 /\ cache_range = <<NoDate, NoDate>> /\ cache_lessons = <<>>
    ELSE /\ cache_range = stored[1].window
         /\ cache_lessons = stored[1].lessons
         /\ cache_until = stored[1].now + cache_ttl

\* a step in which get_lessons returns a list to the request of c
Returns(c) ==
    /\ conns[c].st # "answered"
    /\ conns'[c].st = "answered"
    /\ conns'[c].ret # <<>>

\* C12: whenever a request reads the cache, the stored lessons are those a
\* successful fetch returned for the stored window, with that call's expiry, or
\* the cache is in its initial state; a list returned by get_lessons(W) was
\* fetched for W, and the initial empty list is never returned without a fetch.
C12_NoTornRead ==
    [][/\ (\E c \in Clients : Serve(c)) => Consistent
       /\ \A c \in Clients :
             Returns(c) => (/\ stored' # <<>>
                            /\ fetches' >= 1
                            /\ stored'[1].window = conns'[c].window
                            /\ conns'[c].ret = <<stored'[1].lessons>>
                            /\ conns'[c].status = 200)]_vars

\* the second request, for the window the first one stored, was served the
\* stored lessons without a fetch
C12_Witness ==
    /\ conns[1].st = "answered" /\ conns[1].status = 200
    /\ conns[2].st = "answered" /\ conns[2].status = 200
    /\ conns[2].now > conns[1].now
    /\ conns[2].window = conns[1].window
    /\ fetches = 1
    /\ stored # <<>>
    /\ stored[1].lessons # <<>>
    /\ conns[2].ret = <<stored[1].lessons>>
    /\ Consistent

\* C13 as stated: the expiry of an entry is at least the time at which it is
\* stored, after its fetch returned, plus the TTL
C13_ExpiryFromCreation ==
    [][\A c \in Clients : StoreUntil(c) => cache_until' >= clock + cache_ttl]_vars

\* C13 amended: the expiry of an entry is the time at which the call that
\* created it read the clock, before its fetch, plus the TTL; it is the time of
\* storing plus the TTL less the duration of the fetch, and no later write
\* changes it while the entry is stored.
C13_ExpiryFromCallTime ==
    [][/\ \A c \in Clients :
             StoreUntil(c) => (/\ cache_until' = conns[c].now + cache_ttl
                               /\ conns[c].now <= clock
                               /\ cache_until' = clock + cache_ttl - (clock - conns[c].now)
                               /\ stored'[1].now = conns[c].now)
       /\ (cache_until' # cache_until) => (\E c \in Clients : StoreUntil(c))]_vars

\* an entry was stored after a fetch that took time: its expiry is earlier
\* than the time of storing plus the TTL
C13_Witness ==
    \E c \in Clients :
        /\ conns[c].st = "answered"
        /\ conns[c].stored_at > conns[c].now
        /\ stored # <<>>
        /\ stored[1].now = conns[c].now
        /\ stored[1].window = conns[c].window
        /\ cache_until = conns[c].now + cache_ttl
        /\ cache_until < conns[c].stored_at + cache_ttl

\* the calendar requests whose handling has begun
CalendarRequests ==
    {c \in Clients : conns[c].st \notin {"none", "queued"} /\ route(conns[c].path) = "calendar"}

\* those of them whose get_lessons call did not return from the cache
Missed ==
    {c \in CalendarRequests :
        \/ conns[c].st \in InSequence
        \/ conns[c].status = 500
        \/ conns[c].stored_at # 0}

\* C14: the number of upstream fetch attempts is the number of calendar
\* requests that missed the cache, one attempt each, whether it succeeded,
\* failed or is under way, and none for a hit, a health or a rejected request;
\* it never exceeds the number of calendar requests, and an upstream call is
\* outstanding only while the request that made it is being handled.
C14_PullDrivenNoRetry ==
    /\ [](/\ fetches = Cardinality(Missed)
          /\ fetches <= Cardinality(CalendarRequests))
    /\ [][fetches' # fetches =>
            (/\ fetches' = fetches + 1
             /\ \E c \in Clients : Serve(c) /\ c \in Missed' /\ c \notin CalendarRequests)]_vars

\* the fetch of the first request failed and was not made again; the second
\* request made its own fetch
C14_Witness ==
    /\ conns[1].st = "answered" /\ conns[1].status = 500
    /\ conns[2].st = "answered" /\ conns[2].status = 200
    /\ conns[1].window = conns[2].window
    /\ conns[1].now = conns[2].now
    /\ ent_name = <<>>
    /\ fetches = 2
    /\ stored # <<>>

----------------------------------------------------------------------------
(* Claims about the time normalisation, checked under SpecTime *)

\* the instant a zone-aware timestamp denotes, as a UTC hour
Instant(dt) == dt.wall - dt.off

\* the normalised value of dt, given the value out that _to_local returned
Normalized(dt, out) ==
    /\ dt.kind = "none" => out = NoneDt
    /\ dt.kind = "naive" =>
          /\ out.kind = "aware"
          /\ out.wall = dt.wall
          /\ out.off \in {TzStdOffset, TzDstOffset}
    /\ dt.kind = "aware" =>
          /\ out.kind = "aware"
          /\ Instant(out) = Instant(dt)
          /\ out.off = (IF Instant(dt) < DstSwitchUtc THEN TzStdOffset ELSE TzDstOffset)

\* C15: _to_local(None) is None; a timestamp without zone keeps its wall-clock
\* time and gets the target zone; a timestamp with a zone is converted to the
\* same instant in the target zone; two zone-aware timestamps of the same
\* instant normalise to the same value and their events get the same identifier.
C15_TimeNormalization ==
    result # <<>> =>
        /\ Normalized(arg.a, result[1].a)
        /\ Normalized(arg.b, result[1].b)
        /\ (/\ arg.a.kind = "aware" /\ arg.b.kind = "aware"
            /\ Instant(arg.a) = Instant(arg.b))
           => (/\ result[1].a = result[1].b
               /\ Len(result[1].feed_a.events) = 1
               /\ Len(result[1].feed_b.events) = 1
               /\ result[1].feed_a.events[1].uid = result[1].feed_b.events[1].uid
               /\ result[1].feed_a.events[1].dtstart = result[1].a)

\* the same instant, after the switch to summer time, given in UTC and in a
\* zone five hours behind: both became the same summer-time value
C15_Witness ==
    /\ result # <<>>
    /\ arg.a = AwareDt(DstSwitchUtc + 2, 0)
    /\ arg.b = AwareDt(DstSwitchUtc - 3, 0 - 5)
    /\ result[1].a = AwareDt(DstSwitchUtc + 2 + TzDstOffset, TzDstOffset)
    /\ result[1].b = result[1].a
    /\ result[1].feed_a.events[1].uid = result[1].feed_b.events[1].uid

----------------------------------------------------------------------------
(* Claims about the fields of the events, checked under SpecIcs *)

\* the description has a line that starts with the given label
HasLine(desc, label) ==
    \E i \in 1..Len(desc) : desc[i] = label /\ (i = 1 \/ desc[i - 1] = "\n")

\* the number of lines of a description
NumLines(desc) ==
    IF desc = <<>> THEN 0
    ELSE 1 + Cardinality({i \in 1..Len(desc) : desc[i] = "\n"})

\* the record names a teacher, a room
HasTeacher(rec) == Truthy(rec.teacher) \/ Truthy(rec.teacher_name)
HasRoom(rec) == Truthy(rec.classroom) \/ Truthy(rec.classroom_name)

\* the number of the three optional lines that apply to the record
Applicable(rec) ==
    (IF HasTeacher(rec) THEN 1 ELSE 0) + (IF HasRoom(rec) THEN 1 ELSE 0)
    + (IF rec.canceled THEN 1 ELSE 0)

\* C16: the description of every event has a teacher line iff the record
\* names a teacher, a room line iff it names a room, the cancellation warning
\* iff it is canceled, and is the single placeholder line iff none applies; it
\* is never empty; the event has a location, the room, iff the record names a
\* room, that is iff its description has a room line.
C16_DescriptionAndLocation ==
    result # <<>> =>
        LET evs == result[1].events
            recs == Timed(arg)
        IN  /\ Len(evs) = Len(recs)
            /\ \A i \in 1..Len(evs) :
                  LET d == evs[i].description
                      rec == recs[i]
                  IN  /\ d # <<>>
                      /\ HasLine(d, "Enseignant.e : ") <=> HasTeacher(rec)
                      /\ HasLine(d, "Salle : ") <=> HasRoom(rec)
                      /\ HasLine(d, "(!) Seance annulee") <=> rec.canceled
                      /\ (d = <<"Seance">>) <=> (Applicable(rec) = 0)
                      /\ Applicable(rec) > 0 => NumLines(d) = Applicable(rec)
                      /\ (evs[i].location # <<>>) <=> HasRoom(rec)
                      /\ (evs[i].location # <<>>) <=> HasLine(d, "Salle : ")
                      /\ HasRoom(rec) =>
                            evs[i].location = <<Or(rec.classroom, rec.classroom_name)>>

\* a canceled lesson without teacher and room: its description is the warning
\* line alone and it has no location
C16_Witness ==
    /\ result # <<>>
    /\ Len(arg) = 1
    /\ arg[1].canceled
    /\ ~HasTeacher(arg[1])
    /\ ~HasRoom(arg[1])
    /\ Len(result[1].events) = 1
    /\ result[1].events[1].description = <<"(!) Seance annulee">>
    /\ result[1].events[1].location = <<>>

\* the title the claim describes, for a given default
TitleWith(rec, default) ==
    IF Truthy(rec.subject) THEN rec.subject
    ELSE IF Truthy(rec.subject_name) THEN rec.subject_name
    ELSE default

\* the summary built on a title
SummaryWith(rec, title) ==
    IF Truthy(rec.group_name) THEN title \o <<" (">> \o rec.group_name \o <<")">>
    ELSE title

\* every event has the title of its record, with the given default, in its
\* summary and in its identifier
TitlesFollow(default) ==
    result # <<>> =>
        LET evs == result[1].events
            recs == Timed(arg)
        IN  /\ Len(evs) = Len(recs)
            /\ \A i \in 1..Len(evs) :
                  LET title == TitleWith(recs[i], default)
                  IN  /\ evs[i].summary = SummaryWith(recs[i], title)
                      /\ evs[i].uid =
                            uid_for(evs[i].dtstart, title,
                                    Or(Or(recs[i].classroom, recs[i].classroom_name), <<>>),
                                    Or(Or(recs[i].teacher, recs[i].teacher_name), <<>>))

\* C17 as stated: the title is the primary subject field when non-empty, else
\* the alias when non-empty, else the default "Lesson"
C17_TitleDefaultLesson == TitlesFollow(<<"Lesson">>)

\* C17 amended: the title is the primary subject field when non-empty, else
\* the alias when non-empty, else the default "Cours"; summary and identifier
\* of a record with both title fields empty are computed from that default.
C17_TitleDefaultCours == TitlesFollow(<<"Cours">>)

\* a record with an empty subject, no alias and a group: its summary is
\* "Cours (G)" and its identifier is built on "Cours"
C17_Witness ==
    /\ result # <<>>
    /\ Len(arg) = 1
    /\ arg[1].subject = <<>>
    /\ arg[1].subject_name = NoneStr
    /\ arg[1].group_name = <<"G">>
    /\ Len(result[1].events) = 1
    /\ result[1].events[1].summary = <<"Cours", " (", "G", ")">>
    /\ \E i \in 1..Len(result[1].events[1].uid) : result[1].events[1].uid[i] = "Cours"

====
